---------------------------- MODULE Spec2Model ----------------------------
(***************************************************************************)
(* ZoteroCoverage (src/src/main.rs): reports the bibliography entries that *)
(* a document never cites.                                                 *)
(*                                                                         *)
(* Strings are sequences of characters.  The alphabet has one character    *)
(* of every class the regular expression of get_citations_document tells   *)
(* apart: the sigil, a letter, a digit, the underscore (a word character   *)
(* that is neither letter nor digit), the period and a blank (not a word   *)
(* character).                                                             *)
(***************************************************************************)
EXTENDS Integers, Sequences, FiniteSets, TLC

VARIABLES
    pc,                     \* position of the process inside main
    zotero_lib,             \* args.zotero_lib: "Some" or "None"
    document_md,            \* the document read into memory
    bibliography_path,      \* the path taken from the document header
    bibliography_json,      \* the bibliography payload read into memory
    citations_bibliography, \* Vec<Citations> decoded from the payload
    citations_document,     \* Vec<&str> extracted from the document
    differences,            \* Vec<Citations> of uncited entries
    d,                      \* index of the next entry of `for d in differences`
    stdout,                 \* the lines written to standard output so far
    failure                 \* the error that ended the run, "" while there is none

vars == <<pc, zotero_lib, document_md, bibliography_path, bibliography_json,
          citations_bibliography, citations_document, differences, d, stdout,
          failure>>

---------------------------------------------------------------------------
(* Bounds of the model. *)

\* fragments concatenated into a document given to get_citations_document alone
MaxFragments == 5
\* fragments concatenated into a document read by main
MaxMainFragments == 3
\* extracted keys handed to get_citation_difference alone
MaxDocumentKeys == 3
\* bibliography entries handed to get_citation_difference alone
MaxEntries == 3
\* elements of a bibliography payload handed to get_citations_bibliography alone
MaxElements == 2
\* members of an object, elements of an array, inside such a payload
MaxMembers == 2
\* elements of a bibliography payload read by main
MaxMainElements == 2

---------------------------------------------------------------------------
(* Characters and their classes under the regex crate's \w and \d. *)

Letters == {"a"}
Digits == {"1"}
Underscore == "_"
Period == "."
Sigil == "@"
Blank == " "

IsDigit(c) == c \in Digits
IsWord(c) == c \in Letters \cup Digits \cup {Underscore}

Year == <<"1", "1", "1", "1">>

Max(S) == CHOOSE x \in S : \A y \in S : y <= x
Min(S) == CHOOSE x \in S : \A y \in S : x <= y

RECURSIVE SetToSortedSeq(_)
SetToSortedSeq(S) ==
    IF S = {} THEN <<>> ELSE <<Min(S)>> \o SetToSortedSeq(S \ {Min(S)})

Range(s) == {s[i] : i \in DOMAIN s}

---------------------------------------------------------------------------
(* get_citations_document: Regex r"@(?<key>\w+\.\d{4}\w?)" over the text.  *)

\* the number of consecutive word characters of text from position i on
RECURSIVE WordRun(_, _)
WordRun(text, i) ==
    IF i <= Len(text) /\ IsWord(text[i]) THEN 1 + WordRun(text, i + 1) ELSE 0

\* \.\d{4} at position i
PeriodYearAt(text, i) ==
    /\ i + 4 <= Len(text)
    /\ text[i] = Period
    /\ \A j \in (i + 1)..(i + 4) : IsDigit(text[j])

\* faulty variant of MatchEndAt: \w* for \w+, the name may be empty
MatchEndAtEmptyName(text, s) ==
    IF s > Len(text) \/ text[s] # Sigil THEN 0
    ELSE LET ns == {n \in 0..WordRun(text, s + 1) : PeriodYearAt(text, s + 1 + n)}
         IN  IF ns = {} THEN 0
             ELSE LET e == s + Max(ns) + 5
                  IN  IF e + 1 <= Len(text) /\ IsWord(text[e + 1])
                      THEN e + 1 ELSE e

\* The end of the match of the whole pattern started at s, 0 when the pattern
\* does not match there.  \w+ is greedy and gives characters back until the
\* rest matches; \w? is greedy and nothing follows it.
MatchEndAt(text, s) ==
    IF s > Len(text) \/ text[s] # Sigil THEN 0
    ELSE LET ns == {n \in 1..WordRun(text, s + 1) : PeriodYearAt(text, s + 1 + n)}
         IN  IF ns = {} THEN 0
             ELSE LET e == s + Max(ns) + 5
                  IN  IF e + 1 <= Len(text) /\ IsWord(text[e + 1])
                      THEN e + 1 ELSE e

\* captures_iter: the leftmost match at or after `at`, then on from its end
RECURSIVE captures_iter(_, _)
captures_iter(text, at) ==
    IF at > Len(text) THEN <<>>
    ELSE LET e == MatchEndAt(text, at)
         IN  IF e = 0 THEN captures_iter(text, at + 1)
             ELSE <<[start |-> at, end |-> e]>> \o captures_iter(text, e + 1)

\* faulty variant of CaptureKey: the whole match for the group
CaptureKeyWithSigil(text, caps) == SubSeq(text, caps.start, caps.end)

\* caps.name("key").unwrap().as_str(): the group starts after the sigil
CaptureKey(text, caps) == SubSeq(text, caps.start + 1, caps.end)

\* lines 51-59
get_citations_document(document) ==
    LET matches == captures_iter(document, 1)
    IN  [ok |-> TRUE,
         v  |-> [i \in 1..Len(matches) |-> CaptureKey(document, matches[i])]]

---------------------------------------------------------------------------
(* get_citation_difference. *)

\* struct Citations
Citations(key) == [citation_key |-> key]

\* faulty variant of HashSetFromIter: a repeated key is lost
HashSetOfUniqueKeys(document) ==
    {k \in Range(document) : Cardinality({i \in DOMAIN document : document[i] = k}) = 1}

\* HashSet::from_iter(document), line 65
HashSetFromIter(document) == Range(document)

\* faulty variant of IsUncited: the negation is missing
IsCited(document_set, citation) == citation.citation_key \in document_set

\* the closure of filter, line 69
IsUncited(document_set, citation) == citation.citation_key \notin document_set

\* faulty variant of FilterUncited: an entry equal to a later one is dropped
RECURSIVE FilterDistinctUncited(_, _)
FilterDistinctUncited(document_set, json) ==
    IF json = <<>> THEN <<>>
    ELSE LET rest == FilterDistinctUncited(document_set, Tail(json))
         IN  IF IsUncited(document_set, Head(json))
                /\ \A i \in DOMAIN rest : rest[i] # Head(json)
             THEN <<Head(json)>> \o rest ELSE rest

\* json.iter().filter(..).cloned().collect(), lines 67-71
FilterUncited(document_set, json) ==
    SelectSeq(json, LAMBDA citation : IsUncited(document_set, citation))

\* faulty variant of get_citation_difference: the difference the other way
\* round, the extracted keys that the bibliography lacks
get_citation_difference_reversed(document, json) ==
    LET json_set == {json[i].citation_key : i \in DOMAIN json}
        missing == SelectSeq(document, LAMBDA key : key \notin json_set)
    IN  [ok |-> TRUE, v |-> [i \in DOMAIN missing |-> Citations(missing[i])]]

\* lines 61-74
get_citation_difference(document, json) ==
    LET document_set == HashSetFromIter(document)
    IN  [ok |-> TRUE, v |-> FilterUncited(document_set, json)]

---------------------------------------------------------------------------
(* get_citations_bibliography: serde_json::from_str::<Vec<Citations>>.     *)
(* A payload is the JSON value its text denotes, or "invalid" when the     *)
(* text is not one JSON value.  Every value is [t |-> type, v |-> content]:*)
(* the characters of a string, the elements of an array, the members       *)
(* [name, value] of an object in the order of the text.                    *)

JsonInvalid == [t |-> "invalid", v |-> <<>>]
JsonNull == [t |-> "null", v |-> <<>>]
JsonNumber == [t |-> "number", v |-> <<>>]
JsonString(chars) == [t |-> "string", v |-> chars]
JsonArray(elements) == [t |-> "array", v |-> elements]
JsonObject(members) == [t |-> "object", v |-> members]
Member(name, value) == [name |-> name, value |-> value]

\* #[serde(rename = "citation-key")], line 27
CitationKeyField == "citation-key"

\* String::deserialize: a JSON string and nothing else
DeserializeString(value) ==
    IF value.t = "string" THEN [ok |-> TRUE, v |-> value.v]
    ELSE [ok |-> FALSE, v |-> <<>>]

\* The derived visit_map of Citations: the field is taken from the member
\* named citation-key, a second such member is a duplicate-field error, a
\* member of any other name is skipped, no such member is a missing-field
\* error.
VisitMap(members) ==
    LET at == {i \in DOMAIN members : members[i].name = CitationKeyField}
    IN  IF Cardinality(at) # 1 THEN [ok |-> FALSE, v |-> <<>>]
        ELSE DeserializeString(members[Min(at)].value)

\* The derived visit_seq of Citations, followed by serde_json's end_seq: the
\* one field is taken from the first element and no element may follow.
VisitSeq(elements) ==
    IF Len(elements) # 1 THEN [ok |-> FALSE, v |-> <<>>]
    ELSE DeserializeString(elements[1])

\* #[derive(Deserialize)] struct Citations, lines 25-29: serde_json's
\* deserialize_struct hands an object to visit_map and an array to visit_seq
\* and rejects every other value.
DeserializeCitations(value) ==
    LET field == IF value.t = "object" THEN VisitMap(value.v)
                 ELSE IF value.t = "array" THEN VisitSeq(value.v)
                 ELSE [ok |-> FALSE, v |-> <<>>]
    IN  [ok |-> field.ok, v |-> Citations(field.v)]

\* Vec<Citations>::deserialize: an array, every element of which decodes
DeserializeVec(value) ==
    IF value.t # "array" THEN [ok |-> FALSE, v |-> <<>>]
    ELSE LET each == [i \in DOMAIN value.v |-> DeserializeCitations(value.v[i])]
         IN  IF \A i \in DOMAIN each : each[i].ok
             THEN [ok |-> TRUE, v |-> [i \in DOMAIN each |-> each[i].v]]
             ELSE [ok |-> FALSE, v |-> <<>>]

\* lines 44-49
get_citations_bibliography(bibliography) == DeserializeVec(bibliography)

---------------------------------------------------------------------------
(* Inputs. *)

SeqsUpTo(S, n) == UNION {[1..m -> S] : m \in 0..n}

RECURSIVE Concatenations(_, _)
Concatenations(F, n) ==
    IF n = 0 THEN {<<>>}
    ELSE LET P == Concatenations(F, n - 1)
         IN  P \cup {t \o f : t \in P, f \in F}

CitedKey == <<"a", Period>> \o Year

\* documents given to get_citations_document alone
Fragments ==
    {<<Sigil>>, <<"a">>, <<Period>>, Year, <<"1">>, <<Underscore>>, <<Blank>>,
     <<Sigil>> \o CitedKey}
Documents == Concatenations(Fragments, MaxFragments)

\* keys and entries given to get_citation_difference alone
DifferenceKeys == {CitedKey, CitedKey \o <<"a">>, <<Period>> \o Year}
DocumentKeySeqs == SeqsUpTo(DifferenceKeys, MaxDocumentKeys)
EntrySeqs == SeqsUpTo({Citations(k) : k \in DifferenceKeys}, MaxEntries)

\* payloads given to get_citations_bibliography alone
FieldValues ==
    {JsonString(CitedKey), JsonString(<<Period>> \o Year), JsonNumber, JsonNull}
Members == {Member(n, x) : n \in {CitationKeyField, "title"}, x \in FieldValues}
Elements ==
    {JsonObject(m) : m \in SeqsUpTo(Members, MaxMembers)}
    \cup {JsonArray(e) : e \in SeqsUpTo(FieldValues, MaxMembers)}
    \cup FieldValues
Payloads ==
    {JsonArray(e) : e \in SeqsUpTo(Elements, MaxElements)}
    \cup {JsonInvalid, JsonNull, JsonNumber, JsonString(CitedKey),
          JsonObject(<<Member(CitationKeyField, JsonString(CitedKey))>>)}

\* documents and payloads read by main
MainFragments ==
    {<<Sigil>>, <<"a">>, <<Period>> \o Year, <<Blank>>, <<Sigil>> \o CitedKey}
MainDocuments == Concatenations(MainFragments, MaxMainFragments)
BibliographyKeys == {CitedKey, <<Period>> \o Year, CitedKey \o <<Blank>>}
MainPayloads ==
    {JsonArray(e) :
        e \in SeqsUpTo({JsonObject(<<Member(CitationKeyField, JsonString(k))>>) :
                            k \in BibliographyKeys}, MaxMainElements)}
    \cup {JsonInvalid, JsonArray(<<JsonObject(<<>>)>>)}
BibliographyPaths == {"refs.json"}

---------------------------------------------------------------------------
(* The lines of standard output. *)

Line(fmt, n, key, path) == [fmt |-> fmt, n |-> n, key |-> key, path |-> path]
\* println!("Trying to open {bibliography_path}"), line 113
TryingLine(path) == Line("Trying to open {bibliography_path}", 0, <<>>, path)
\* println!("All sources cited"), line 124
AllCitedLine == Line("All sources cited", 0, <<>>, "")
\* println!("{} Sources not cited:", differences.len()), line 126
CountLine(n) == Line("{} Sources not cited:", n, <<>>, "")
\* impl fmt::Display for Citations, lines 38-42, under println!("{d}"), line 128
DisplayCitations(citation) == Line("{d}", 0, citation.citation_key, "")

---------------------------------------------------------------------------
(* main, one step per statement that reads, decodes, computes or prints.   *)

\* lines 90-94: read_to_string(&mut document_md)?
ReadDocument ==
    /\ pc = "read_document"
    /\ \/ /\ \E text \in MainDocuments : document_md' = text
          /\ pc' = "bibliography"
          /\ UNCHANGED failure
       \/ /\ pc' = "error"
          /\ failure' = "document_read"
          /\ UNCHANGED document_md
    /\ UNCHANGED <<zotero_lib, bibliography_path, bibliography_json,
                   citations_bibliography, citations_document, differences, d,
                   stdout>>

\* lines 101-105: the bibliography named on the command line
ReadZoteroLib ==
    /\ pc = "bibliography"
    /\ zotero_lib = "Some"
    /\ \/ /\ \E payload \in MainPayloads : bibliography_json' = payload
          /\ pc' = "decode"
          /\ UNCHANGED failure
       \/ /\ pc' = "error"
          /\ failure' = "zotero_lib_read"
          /\ UNCHANGED bibliography_json
    /\ UNCHANGED <<zotero_lib, document_md, bibliography_path,
                   citations_bibliography, citations_document, differences, d,
                   stdout>>

\* lines 76-82: YamlFrontMatter::parse::<Metadata>(..).unwrap().metadata.bibliography.
\* The header block is not part of the modelled text: whether the document
\* has one with a bibliography key, and the path it gives, is an input here.
get_bibliography_path(front_matter) ==
    IF front_matter = "Err" THEN [ok |-> FALSE, v |-> ""]
    ELSE [ok |-> TRUE, v |-> front_matter]

\* lines 106-111
GetBibliographyPath ==
    /\ pc = "bibliography"
    /\ zotero_lib = "None"
    /\ \E front_matter \in BibliographyPaths \cup {"Err"} :
         LET r == get_bibliography_path(front_matter)
         IN  IF r.ok
             THEN /\ bibliography_path' = r.v
                  /\ pc' = "trying"
                  /\ UNCHANGED failure
             ELSE /\ pc' = "error"
                  /\ failure' = "no_bibliography_path"
                  /\ UNCHANGED bibliography_path
    /\ UNCHANGED <<zotero_lib, document_md, bibliography_json,
                   citations_bibliography, citations_document, differences, d,
                   stdout>>

\* faulty variant of PrintlnTrying: the diagnostic does not go to standard output
EprintlnTrying ==
    /\ pc = "trying"
    /\ pc' = "read_path"
    /\ UNCHANGED <<zotero_lib, document_md, bibliography_path, bibliography_json,
                   citations_bibliography, citations_document, differences, d,
                   stdout, failure>>

\* line 113
PrintlnTrying ==
    /\ pc = "trying"
    /\ stdout' = Append(stdout, TryingLine(bibliography_path))
    /\ pc' = "read_path"
    /\ UNCHANGED <<zotero_lib, document_md, bibliography_path, bibliography_json,
                   citations_bibliography, citations_document, differences, d,
                   failure>>

\* line 114: fs::read_to_string(bibliography_path)?
ReadBibliographyPath ==
    /\ pc = "read_path"
    /\ \/ /\ \E payload \in MainPayloads : bibliography_json' = payload
          /\ pc' = "decode"
          /\ UNCHANGED failure
       \/ /\ pc' = "error"
          /\ failure' = "bibliography_path_read"
          /\ UNCHANGED bibliography_json
    /\ UNCHANGED <<zotero_lib, document_md, bibliography_path,
                   citations_bibliography, citations_document, differences, d,
                   stdout>>

\* line 118: get_citations_bibliography(&bibliography_json).unwrap()
DecodeBibliography ==
    /\ pc = "decode"
    /\ LET r == get_citations_bibliography(bibliography_json)
       IN  \/ /\ r.ok
              /\ citations_bibliography' = r.v
              /\ pc' = "extract"
              /\ UNCHANGED failure
           \/ /\ ~r.ok
              /\ pc' = "error"
              /\ failure' = "malformed_bibliography"
              /\ UNCHANGED citations_bibliography
    /\ UNCHANGED <<zotero_lib, document_md, bibliography_path, bibliography_json,
                   citations_document, differences, d, stdout>>

\* line 119: get_citations_document(&document_md).unwrap()
ExtractCitations ==
    /\ pc = "extract"
    /\ get_citations_document(document_md).ok
    /\ citations_document' = get_citations_document(document_md).v
    /\ pc' = "difference"
    /\ UNCHANGED <<zotero_lib, document_md, bibliography_path, bibliography_json,
                   citations_bibliography, differences, d, stdout, failure>>

\* line 121: get_citation_difference(..).unwrap()
CitationDifference ==
    /\ pc = "difference"
    /\ get_citation_difference(citations_document, citations_bibliography).ok
    /\ differences' =
         get_citation_difference(citations_document, citations_bibliography).v
    /\ pc' = "report"
    /\ UNCHANGED <<zotero_lib, document_md, bibliography_path, bibliography_json,
                   citations_bibliography, citations_document, d, stdout,
                   failure>>

\* faulty variant of NothingUncited: the comparison is inverted
NothingUncitedIfAny(uncited) == Len(uncited) # 0

\* the condition of line 123
NothingUncited(uncited) == Len(uncited) = 0

\* lines 123-124
PrintlnAllCited ==
    /\ pc = "report"
    /\ NothingUncited(differences)
    /\ stdout' = Append(stdout, AllCitedLine)
    /\ pc' = "done"
    /\ UNCHANGED <<zotero_lib, document_md, bibliography_path, bibliography_json,
                   citations_bibliography, citations_document, differences, d,
                   failure>>

\* lines 125-126
PrintlnCount ==
    /\ pc = "report"
    /\ ~NothingUncited(differences)
    /\ stdout' = Append(stdout, CountLine(Len(differences)))
    /\ d' = 1
    /\ pc' = "for"
    /\ UNCHANGED <<zotero_lib, document_md, bibliography_path, bibliography_json,
                   citations_bibliography, citations_document, differences,
                   failure>>

\* lines 127-129: one turn of the loop
PrintlnEntry ==
    /\ pc = "for"
    /\ d <= Len(differences)
    /\ stdout' = Append(stdout, DisplayCitations(differences[d]))
    /\ d' = d + 1
    /\ UNCHANGED <<pc, zotero_lib, document_md, bibliography_path,
                   bibliography_json, citations_bibliography, citations_document,
                   differences, failure>>

\* lines 127-132: the loop is over, Ok(())
ReturnOk ==
    /\ pc = "for"
    /\ d > Len(differences)
    /\ pc' = "done"
    /\ UNCHANGED <<zotero_lib, document_md, bibliography_path, bibliography_json,
                   citations_bibliography, citations_document, differences, d,
                   stdout, failure>>

\* line 85 and the bindings of lines 91 and 98
Init ==
    /\ pc = "read_document"
    /\ zotero_lib \in {"Some", "None"}
    /\ document_md = <<>>
    /\ bibliography_path = ""
    /\ bibliography_json = JsonInvalid
    /\ citations_bibliography = <<>>
    /\ citations_document = <<>>
    /\ differences = <<>>
    /\ d = 0
    /\ stdout = <<>>
    /\ failure = ""

Next ==
    \/ ReadDocument
    \/ ReadZoteroLib
    \/ GetBibliographyPath
    \/ PrintlnTrying
    \/ ReadBibliographyPath
    \/ DecodeBibliography
    \/ ExtractCitations
    \/ CitationDifference
    \/ PrintlnAllCited
    \/ PrintlnCount
    \/ PrintlnEntry
    \/ ReturnOk

Spec == Init /\ [][Next]_vars

---------------------------------------------------------------------------
(* Each function on its own, as the unit tests call it: the arguments are  *)
(* drawn, the statement of main that calls the function is the one step.   *)

InitExtract ==
    /\ pc = "extract"
    /\ zotero_lib = "Some"
    /\ document_md \in Documents
    /\ bibliography_path = ""
    /\ bibliography_json = JsonInvalid
    /\ citations_bibliography = <<>>
    /\ citations_document = <<>>
    /\ differences = <<>>
    /\ d = 0
    /\ stdout = <<>>
    /\ failure = ""

NextExtract == ExtractCitations

SpecExtract == InitExtract /\ [][NextExtract]_vars

InitDifference ==
    /\ pc = "difference"
    /\ zotero_lib = "Some"
    /\ document_md = <<>>
    /\ bibliography_path = ""
    /\ bibliography_json = JsonInvalid
    /\ citations_bibliography \in EntrySeqs
    /\ citations_document \in DocumentKeySeqs
    /\ differences = <<>>
    /\ d = 0
    /\ stdout = <<>>
    /\ failure = ""

NextDifference == CitationDifference

SpecDifference == InitDifference /\ [][NextDifference]_vars

InitDecode ==
    /\ pc = "decode"
    /\ zotero_lib = "Some"
    /\ document_md = <<>>
    /\ bibliography_path = ""
    /\ bibliography_json \in Payloads
    /\ citations_bibliography = <<>>
    /\ citations_document = <<>>
    /\ differences = <<>>
    /\ d = 0
    /\ stdout = <<>>
    /\ failure = ""

NextDecode == DecodeBibliography

SpecDecode == InitDecode /\ [][NextDecode]_vars

---------------------------------------------------------------------------
(* Properties of get_citation_difference, under SpecDifference.            *)

Count(seq, key) == Cardinality({i \in DOMAIN seq : seq[i].citation_key = key})

\* every element of document twice, in place
DuplicateEach(document) ==
    [i \in 1..(2 * Len(document)) |-> document[(i + 1) \div 2]]

\* C1: get_citation_difference(D, B) never fails and returns exactly the
\* entries of B whose key equals no element of D, in the order of B: with
\* i1 < i2 < ... the positions of those entries in B, the n-th entry of the
\* result is B[in], and the result has no other entry.
C1_DifferenceIsUncitedSubsequence ==
    pc = "report" =>
        LET kept == SetToSortedSeq(
                {i \in DOMAIN citations_bibliography :
                    \A j \in DOMAIN citations_document :
                        citations_document[j] # citations_bibliography[i].citation_key})
        IN  /\ get_citation_difference(citations_document, citations_bibliography).ok
            /\ Len(differences) = Len(kept)
            /\ \A n \in DOMAIN differences :
                   differences[n] = citations_bibliography[kept[n]]

\* C1: the call returned, it dropped an entry and kept at least two
C1_Witness ==
    /\ pc = "report"
    /\ Len(differences) >= 2
    /\ Len(differences) < Len(citations_bibliography)

\* C7 as stated: the result of get_citation_difference holds each citation
\* key at most once, also when entries of the bibliography share a key.
C7_OutputKeysDistinct ==
    pc = "report" =>
        \A i, j \in DOMAIN differences :
            differences[i].citation_key = differences[j].citation_key => i = j

\* C7 as amended: duplicate keys of the bibliography are tolerated and kept:
\* a key that no extracted key equals occurs in the result as often as in
\* the bibliography, every other key does not occur in it.
C7_DuplicatesPreserved ==
    pc = "report" =>
        \A k \in DifferenceKeys :
            Count(differences, k) =
                IF k \in Range(citations_document) THEN 0
                ELSE Count(citations_bibliography, k)

\* C7: the call returned for a bibliography in which an uncited key occurs twice
C7_Witness ==
    /\ pc = "report"
    /\ \E k \in DifferenceKeys :
          /\ Count(citations_bibliography, k) >= 2
          /\ k \notin Range(citations_document)

\* C8: the result is the same for every sequence of extracted keys with the
\* same set of keys: every reordering, every repetition of elements, and
\* the sequence with every element duplicated.
C8_SetAbsorption ==
    pc = "report" =>
        \A document \in DocumentKeySeqs \cup {DuplicateEach(citations_document)} :
            Range(document) = Range(citations_document) =>
                get_citation_difference(document, citations_bibliography).v
                    = differences

\* C8: the call returned for two different extracted keys, one of them
\* cited by the bibliography and one entry left uncited
C8_Witness ==
    /\ pc = "report"
    /\ Cardinality(Range(citations_document)) >= 2
    /\ differences # <<>>
    /\ Len(differences) < Len(citations_bibliography)

\* C9: with no extracted key the result is the whole bibliography, every
\* entry in its place (the empty bibliography gives the empty result).
C9_Completeness ==
    (pc = "report" /\ citations_document = <<>>) =>
        differences = citations_bibliography

\* C9: the call returned for no extracted key and at least two entries
C9_Witness ==
    /\ pc = "report"
    /\ citations_document = <<>>
    /\ Len(citations_bibliography) >= 2

---------------------------------------------------------------------------
(* Properties of get_citations_document, under SpecExtract.                *)

\* word characters, a period, four digits, then nothing or one character
\* of the class trailing
HasShape(key, trailing) ==
    \E p \in 2..Len(key) :
        /\ \A j \in 1..(p - 1) : IsWord(key[j])
        /\ key[p] = Period
        /\ Len(key) \in {p + 4, p + 5}
        /\ \A j \in (p + 1)..(p + 4) : IsDigit(key[j])
        /\ Len(key) = p + 5 => key[p + 5] \in trailing

\* the shape the pattern captures: the trailing character is a word character
HasKeyShape(key) == HasShape(key, Letters \cup Digits \cup {Underscore})

\* the shape of a CitationKey: the trailing character is a letter
HasCitationKeyShape(key) == HasShape(key, Letters)

\* the text holds a key of the captured shape of this length right after
\* the sigil at position p
KeyAt(text, p, length) ==
    /\ text[p] = Sigil
    /\ p + length <= Len(text)
    /\ HasKeyShape(SubSeq(text, p + 1, p + length))

\* the positions of the text where a match starts
MatchStarts(text) ==
    {p \in DOMAIN text : \E length \in 1..Len(text) : KeyAt(text, p, length)}

\* C2: extraction never fails and emits one key per match, in the order of
\* the text: with p1 < p2 < ... the positions of the sigils followed by
\* word characters, a period, four digits and an optional word character,
\* the n-th key is the text right after pn, without the sigil, of that shape
\* and as long as the shape allows, and it ends before the next match
\* starts.  A key that follows k sigils is emitted k times, a sigil not
\* followed by the shape gives no key, a text without a match gives none.
C2_OneKeyPerMatch ==
    pc = "difference" =>
        LET starts == SetToSortedSeq(MatchStarts(document_md))
        IN  /\ get_citations_document(document_md).ok
            /\ Len(citations_document) = Len(starts)
            /\ \A n \in DOMAIN citations_document :
                   LET key == citations_document[n]
                   IN  /\ KeyAt(document_md, starts[n], Len(key))
                       /\ key = SubSeq(document_md, starts[n] + 1, starts[n] + Len(key))
                       /\ ~KeyAt(document_md, starts[n], Len(key) + 1)
                       /\ n < Len(starts) => starts[n] + Len(key) < starts[n + 1]

\* C2: the extraction returned for a text that holds the same key twice and
\* a sigil that starts no match
C2_Witness ==
    /\ pc = "difference"
    /\ Len(citations_document) = 2
    /\ citations_document[1] = citations_document[2]
    /\ \E p \in DOMAIN document_md :
          document_md[p] = Sigil /\ p \notin MatchStarts(document_md)

\* C6 as stated: every emitted key is word characters, a period, a
\* four-digit year and then nothing or a single letter.
C6_KeysHaveCitationKeyShape ==
    pc = "difference" =>
        \A n \in DOMAIN citations_document :
            HasCitationKeyShape(citations_document[n])

---------------------------------------------------------------------------
(* Properties of get_citations_bibliography, under SpecDecode.             *)

\* the element is a record with a citation-key field that is a string
CarriesStringKey(element) ==
    /\ element.t = "object"
    /\ \E m \in DOMAIN element.v :
          /\ element.v[m].name = CitationKeyField
          /\ element.v[m].value.t = "string"

\* C5 as stated: decoding succeeds exactly when the payload is an array of
\* elements that each carry a string citation-key field; it then returns
\* one entry per element, in order, holding the element's citation key; in
\* every other case it returns an error and no entry.
C5_DecodesExactlyKeyedRecords ==
    pc # "decode" =>
        LET payload == bibliography_json
            wellformed == /\ payload.t = "array"
                          /\ \A i \in DOMAIN payload.v : CarriesStringKey(payload.v[i])
        IN  /\ (pc = "extract") <=> wellformed
            /\ pc = "extract" =>
                  /\ Len(citations_bibliography) = Len(payload.v)
                  /\ \A i \in DOMAIN payload.v :
                        \E m \in DOMAIN payload.v[i].v :
                            payload.v[i].v[m] =
                                Member(CitationKeyField,
                                       JsonString(citations_bibliography[i].citation_key))
            /\ pc = "error" => citations_bibliography = <<>>

---------------------------------------------------------------------------
(* Properties of a run of main, under Spec.                                *)

\* the diagnostic line that precedes the report when the path of the
\* bibliography was taken from the document header
Diagnostic ==
    IF zotero_lib = "None" THEN <<TryingLine(bibliography_path)>> ELSE <<>>

\* C3: when the run ends well, the report on standard output (all of it
\* after the diagnostic line, if any) is the single line "All sources
\* cited" exactly if nothing is uncited; otherwise it is the count line with
\* N the number of uncited entries, then N lines, the i-th just the key of
\* the i-th uncited entry, each entry once.
C3_Report ==
    pc = "done" =>
        LET N == Len(differences)
            report == SubSeq(stdout, Len(Diagnostic) + 1, Len(stdout))
        IN  /\ SubSeq(stdout, 1, Len(Diagnostic)) = Diagnostic
            /\ (report = <<AllCitedLine>>) <=> (N = 0)
            /\ N # 0 =>
                  /\ Len(report) = N + 1
                  /\ report[1] = Line("{} Sources not cited:", N, <<>>, "")
                  /\ \A i \in 1..N :
                        report[i + 1] = Line("{d}", 0, differences[i].citation_key, "")

\* C3: a run ended well with two uncited entries
C3_Witness ==
    /\ pc = "done"
    /\ Len(differences) = 2
    /\ Len(stdout) >= 3

\* C4 as stated: a run that ends in an error has written nothing, except
\* that a failure to read the file at the header's path may follow the
\* diagnostic line; a malformed bibliography leaves no output.
C4_ErrorLeavesNoOutput ==
    pc = "error" =>
        \/ stdout = <<>>
        \/ /\ failure = "bibliography_path_read"
           /\ stdout = <<TryingLine(bibliography_path)>>

\* C4 as amended: a run that ends in an error has written no line of the
\* report.  It has written nothing at all, unless the path of the
\* bibliography was taken from the document header and the run failed after
\* that (the file at the path cannot be read, or its content is malformed):
\* then it has written the diagnostic line and nothing else.
C4_ErrorOutput ==
    pc = "error" =>
        stdout =
            IF /\ zotero_lib = "None"
               /\ failure \in {"bibliography_path_read", "malformed_bibliography"}
            THEN <<TryingLine(bibliography_path)>>
            ELSE <<>>

\* C4: a run ended on a malformed bibliography found through the header
C4_Witness ==
    /\ pc = "error"
    /\ failure = "malformed_bibliography"
    /\ zotero_lib = "None"

\* the key right after some sigil of the text
OccursAfterSigil(text, key) ==
    \E p \in DOMAIN text :
        /\ text[p] = Sigil
        /\ p + Len(key) <= Len(text)
        /\ SubSeq(text, p + 1, p + Len(key)) = key

\* the report has a line for the key
Reported(key) ==
    \E n \in DOMAIN stdout : stdout[n] = Line("{d}", 0, key, "")

\* C10: at the end of a run, an entry whose key is not as a whole word
\* characters, a period, four digits and an optional word character is
\* reported, whatever the document; an entry is absent from the report only
\* if its key has that shape and stands in the document right after a sigil.
C10_UnmatchableKeysReported ==
    pc = "done" =>
        \A i \in DOMAIN citations_bibliography :
            LET key == citations_bibliography[i].citation_key
            IN  /\ ~HasKeyShape(key) => Reported(key)
                /\ ~Reported(key) =>
                      HasKeyShape(key) /\ OccursAfterSigil(document_md, key)

\* C10: a run ended whose document holds, right after a sigil, a key of the
\* bibliography that lacks the shape, and whose report omits another entry
C10_Witness ==
    /\ pc = "done"
    /\ \E i, j \in DOMAIN citations_bibliography :
          /\ ~HasKeyShape(citations_bibliography[i].citation_key)
          /\ OccursAfterSigil(document_md, citations_bibliography[i].citation_key)
          /\ ~Reported(citations_bibliography[j].citation_key)

=============================================================================
